---- MODULE Spec2Model ----
(***************************************************************************)
(* Heterokaryon analysis: the data cleaning and feature derivation         *)
(* pipeline of src/src/data_cleaning.py and the feature registry of        *)
(* src/src/features.py.                                                    *)
(*                                                                         *)
(* A table (pandas DataFrame, or the CSV file holding one) is a record     *)
(* [columns, rows]: columns is the ordered list of column names, rows the  *)
(* ordered list of rows, each row a function from the column names to      *)
(* cells.  A cell is a record [k, n, d, s]:                                *)
(*   k = "null"  NaN / None / empty CSV cell                               *)
(*   k = "num"   the finite number n/d (d > 0, lowest terms)               *)
(*   k = "inf"   +infinity (n = 1) or -infinity (n = -1)                   *)
(*   k = "str"   the string s                                              *)
(* Floating point numbers are modelled as exact rationals; the sign of a   *)
(* zero is not kept (no divisor of the pipeline can be a negative zero for *)
(* the non-negative inputs drawn here).                                    *)
(***************************************************************************)
EXTENDS Integers, Sequences, FiniteSets, TLC

\* The largest number of rows (blank ones included) of a raw CSV file.
MaxRows == 4

\* The largest number of blocks of a raw CSV file put together from whole blocks.
MaxBlocks == 2

\* The largest number of register_feature calls followed.
MaxCalls == 3

-----------------------------------------------------------------------------
(* Cells and float arithmetic *)

Null == [k |-> "null", n |-> 0, d |-> 1, s |-> ""]

Str(s) == [k |-> "str", n |-> 0, d |-> 1, s |-> s]

Inf(sign) == [k |-> "inf", n |-> sign, d |-> 1, s |-> ""]

Abs(x) == IF x < 0 THEN -x ELSE x

Sign(x) == IF x < 0 THEN -1 ELSE 1

RECURSIVE GCD(_, _)
GCD(a, b) == IF b = 0 THEN a ELSE GCD(b, a % b)

\* The finite number n/d, d # 0, in lowest terms with a positive denominator.
Num(n, d) ==
    LET g == GCD(Abs(n), Abs(d))
    IN  [k |-> "num", n |-> (Sign(d) * n) \div g, d |-> Abs(d) \div g, s |-> ""]

Int2Cell(i) == Num(i, 1)

IsNull(v) == v.k = "null"

IsNum(v) == v.k = "num"

IsInf(v) == v.k = "inf"

\* IEEE-754 addition, NaN being the null cell.
FAdd(a, b) ==
    IF ~(a.k \in {"num", "inf"}) \/ ~(b.k \in {"num", "inf"}) THEN Null
    ELSE IF IsInf(a) /\ IsInf(b) THEN (IF a.n = b.n THEN a ELSE Null)
    ELSE IF IsInf(a) THEN a
    ELSE IF IsInf(b) THEN b
    ELSE Num(a.n * b.d + b.n * a.d, a.d * b.d)

FNeg(a) ==
    IF IsInf(a) THEN Inf(-a.n)
    ELSE IF IsNum(a) THEN Num(-a.n, a.d)
    ELSE Null

FSub(a, b) == FAdd(a, FNeg(b))

\* IEEE-754 multiplication: infinity times zero is NaN.
FMul(a, b) ==
    IF ~(a.k \in {"num", "inf"}) \/ ~(b.k \in {"num", "inf"}) THEN Null
    ELSE IF IsInf(a) /\ IsInf(b) THEN Inf(a.n * b.n)
    ELSE IF IsInf(a) THEN (IF b.n = 0 THEN Null ELSE Inf(a.n * Sign(b.n)))
    ELSE IF IsInf(b) THEN (IF a.n = 0 THEN Null ELSE Inf(b.n * Sign(a.n)))
    ELSE Num(a.n * b.n, a.d * b.d)

\* IEEE-754 division as pandas/numpy perform it: no exception is raised,
\* x/0 is +-infinity for x # 0 and NaN for x = 0.
FDiv(a, b) ==
    IF ~(a.k \in {"num", "inf"}) \/ ~(b.k \in {"num", "inf"}) THEN Null
    ELSE IF IsInf(a) /\ IsInf(b) THEN Null
    ELSE IF IsInf(a) THEN Inf(a.n * Sign(b.n))
    ELSE IF IsInf(b) THEN Num(0, 1)
    ELSE IF b.n = 0 THEN (IF a.n = 0 THEN Null ELSE Inf(Sign(a.n)))
    ELSE Num(a.n * b.d, a.d * b.n)

-----------------------------------------------------------------------------
(* Tables *)

Table(columns, rows) == [columns |-> columns, rows |-> rows]

Range(s) == {s[i] : i \in 1..Len(s)}

HasColumn(t, c) == c \in Range(t.columns)

\* df[c] = values, c a new column (appended) or an existing one (overwritten):
\* values is the sequence of the new cells, one per row.
SetColumn(t, c, values) ==
    Table(IF HasColumn(t, c) THEN t.columns ELSE Append(t.columns, c),
          [i \in 1..Len(t.rows) |->
              [x \in (DOMAIN t.rows[i]) \cup {c} |->
                  IF x = c THEN values[i] ELSE t.rows[i][x]]])

\* df.drop(columns=[c])
DropColumn(t, c) ==
    Table(SelectSeq(t.columns, LAMBDA x : x # c),
          [i \in 1..Len(t.rows) |->
              [x \in (DOMAIN t.rows[i]) \ {c} |-> t.rows[i][x]]])

\* df[mask]: the rows whose entry of the boolean mask is true, in order.
FilterRows(t, mask) ==
    LET keep == SelectSeq([i \in 1..Len(t.rows) |-> i], LAMBDA i : mask[i])
    IN  Table(t.columns, [k \in 1..Len(keep) |-> t.rows[keep[k]]])

\* The distinct values of a sequence in first-seen order (Series.unique()).
RECURSIVE Unique(_)
Unique(s) ==
    IF s = <<>> THEN <<>>
    ELSE LET front == Unique(SubSeq(s, 1, Len(s) - 1))
         IN  IF s[Len(s)] \in Range(front) THEN front
             ELSE Append(front, s[Len(s)])

\* A Series: the ordered (index, value) pairs.
Entry(index, value) == [index |-> index, value |-> value]

\* df.set_index(key)[col]
SeriesOf(t, key, col) ==
    [i \in 1..Len(t.rows) |-> Entry(t.rows[i][key], t.rows[i][col])]

IndexIsUnique(series) ==
    \A i, j \in 1..Len(series) : series[i].index = series[j].index => i = j

\* One cell of Series.map(series): the value at the key, NaN when the key is
\* not in the index.  (A non-unique index makes map raise; callers test it.)
Lookup(series, key) ==
    IF \E i \in 1..Len(series) : series[i].index = key
    THEN series[CHOOSE i \in 1..Len(series) : series[i].index = key].value
    ELSE Null

-----------------------------------------------------------------------------
(* Results of a call: a returned table, or the exception it raised *)

NoTable == Table(<<>>, <<>>)

Ok(t) == [status |-> "ok", error |-> "", table |-> t]

Raise(e) == [status |-> "error", error |-> e, table |-> NoTable]

NotCalled == [status |-> "none", error |-> "", table |-> NoTable]

-----------------------------------------------------------------------------
(* CSV files *)

NoFile == [exists |-> FALSE, columns |-> <<>>, rows |-> <<>>]

\* One field of a CSV file: a missing value is written as the empty field.
CsvField(v) == IF IsNull(v) THEN Str("") ELSE v

RECURSIVE NatText(_)
\* The decimal digits of a natural number.
NatText(n) ==
    LET digits == <<"0", "1", "2", "3", "4", "5", "6", "7", "8", "9">>
    IN  IF n < 10 THEN digits[n + 1]
        ELSE NatText(n \div 10) \o digits[(n % 10) + 1]

\* The text of a field that holds a whole number.
CsvText(f) ==
    IF IsNum(f) THEN Str((IF f.n < 0 THEN "-" ELSE "") \o NatText(Abs(f.n)))
    ELSE f

\* A field that is text, neither empty nor a number.
IsText(f) == f.k = "str" /\ f.s # ""

\* The cell pd.read_csv makes of a field: the empty field is NaN; a field
\* of a column that holds text somewhere stays the string it is in the file
\* (the column is of dtype object), otherwise it is the number parsed.
CsvParse(f, text_column) ==
    IF f = Str("") THEN Null
    ELSE IF text_column THEN CsvText(f)
    ELSE f

\* df.to_csv(path, index=False)
to_csv(t) ==
    [exists |-> TRUE, columns |-> t.columns,
     rows |-> [i \in 1..Len(t.rows) |->
                  [c \in DOMAIN t.rows[i] |-> CsvField(t.rows[i][c])]]]

\* pd.read_csv(path) of an existing file
read_csv(f) ==
    LET text_column(c) == \E j \in 1..Len(f.rows) : IsText(f.rows[j][c])
    IN  Table(f.columns,
              [i \in 1..Len(f.rows) |->
                  [c \in DOMAIN f.rows[i] |-> CsvParse(f.rows[i][c], text_column(c))]])

-----------------------------------------------------------------------------
(* Raw inputs *)

\* The column layouts of the raw files drawn: Label is optional.
RawLayouts ==
    { <<"Label", "Type", "Area", "Mean", "IntDen">>,
      <<"Type", "Area", "Mean", "IntDen">> }

\* The measurements <<Type, Area, Mean, IntDen>> a raw row is drawn from: the
\* four rows of the worked scenario, a second background with another mean,
\* and a row of zero Area.
RawMeasurements ==
    { <<1, 10, 2, 20>>, <<2, 5, 10, 50>>, <<3, 4, 8, 32>>, <<4, 3, 6, 18>>,
      <<1, 10, 3, 30>>, <<2, 0, 0, 5>> }

\* The blank separator row of the instrument's export.
Blank == <<0, 0, 0, 0>>

RawField(m, c) ==
    IF m = Blank THEN Str("")
    ELSE CASE c = "Type" -> Int2Cell(m[1])
           [] c = "Area" -> Int2Cell(m[2])
           [] c = "Mean" -> Int2Cell(m[3])
           [] c = "IntDen" -> Int2Cell(m[4])
           [] OTHER -> Str("img.tif")

RawFile(columns, ms) ==
    [exists |-> TRUE, columns |-> columns,
     rows |-> [i \in 1..Len(ms) |-> [c \in Range(columns) |-> RawField(ms[i], c)]]]

RawFiles ==
    { RawFile(columns, ms) :
        columns \in RawLayouts,
        ms \in UNION { [1..n -> RawMeasurements \cup {Blank}] : n \in 0..MaxRows } }

\* The column layouts of the malformed raw files drawn: the full layout, and
\* the full layout less one of the required columns.
MalformedLayouts ==
    { <<"Label", "Type", "Area", "Mean", "IntDen">>,
      <<"Label", "Area", "Mean", "IntDen">>,
      <<"Label", "Type", "Mean", "IntDen">>,
      <<"Label", "Type", "Area", "IntDen">>,
      <<"Label", "Type", "Area", "Mean">> }

\* The fields <<Type, Area, Mean, IntDen>> a row of such a file is drawn
\* from: three rows of the worked scenario, and a row whose Type is text.
MalformedFields ==
    { <<Int2Cell(1), Int2Cell(10), Int2Cell(2), Int2Cell(20)>>,
      <<Int2Cell(2), Int2Cell(5), Int2Cell(10), Int2Cell(50)>>,
      <<Int2Cell(4), Int2Cell(3), Int2Cell(6), Int2Cell(18)>>,
      <<Str("abc"), Int2Cell(5), Int2Cell(10), Int2Cell(50)>> }

MalformedFile(columns, fs) ==
    [exists |-> TRUE, columns |-> columns,
     rows |-> [i \in 1..Len(fs) |->
                  [c \in Range(columns) |->
                      CASE c = "Type" -> fs[i][1]
                        [] c = "Area" -> fs[i][2]
                        [] c = "Mean" -> fs[i][3]
                        [] c = "IntDen" -> fs[i][4]
                        [] OTHER -> Str("img.tif")]]]

MalformedFiles ==
    { MalformedFile(columns, fs) :
        columns \in MalformedLayouts,
        fs \in UNION { [1..n -> MalformedFields] : n \in 0..MaxRows } }

\* Whole blocks a raw file is put together from: the block of the worked
\* scenario, the same block over another background, a block with a row of
\* zero Area, a block with no MEF row, and rows with no Background row.
BlockChoices ==
    { << <<1, 10, 2, 20>>, <<2, 5, 10, 50>>, <<3, 4, 8, 32>>, <<4, 3, 6, 18>> >>,
      << <<1, 10, 3, 30>>, <<2, 5, 10, 50>>, <<3, 4, 8, 32>>, <<4, 3, 6, 18>> >>,
      << <<1, 10, 2, 20>>, <<2, 0, 0, 5>>, <<3, 4, 8, 32>>, <<4, 3, 6, 18>> >>,
      << <<1, 10, 3, 30>>, <<2, 5, 10, 50>>, <<4, 3, 6, 18>> >>,
      << <<2, 5, 10, 50>>, <<3, 4, 8, 32>>, <<4, 3, 6, 18>> >> }

RECURSIVE Flatten(_)
Flatten(blocks) ==
    IF blocks = <<>> THEN <<>> ELSE Head(blocks) \o Flatten(Tail(blocks))

RawFilesByBlock ==
    { RawFile(columns, Flatten(blocks)) :
        columns \in RawLayouts,
        blocks \in UNION { [1..n -> BlockChoices] : n \in 0..MaxBlocks } }

-----------------------------------------------------------------------------
(* Row cleaner: src/src/data_cleaning.py *)

IsBlankString(v) == v.k = "str" /\ v.s \in {"", " "}

\* Remove blank rows: rows where all values are NaN, then rows where all
\* values are empty strings once stripped.
_remove_blank_rows(df) ==
    LET notna == FilterRows(df,
                     [i \in 1..Len(df.rows) |->
                         ~(\A c \in DOMAIN df.rows[i] : IsNull(df.rows[i][c]))])
    IN  FilterRows(notna,
            [i \in 1..Len(notna.rows) |->
                ~(\A c \in DOMAIN notna.rows[i] : IsBlankString(notna.rows[i][c]))])

\* next_block_id with the check of the previous row left out: every Type-1
\* row after the first starts a block.
next_block_id_every_1(df, idx, block_id) ==
    IF idx = 0 THEN block_id
    ELSE IF df.rows[idx + 1]["Type"] = Int2Cell(1) THEN block_id + 1
         ELSE block_id

\* next_block_id with the check of the row itself left out: every row after
\* a Type-4 row starts a block.
next_block_id_after_4(df, idx, block_id) ==
    IF idx = 0 THEN block_id
    ELSE IF df.rows[idx]["Type"] = Int2Cell(4) THEN block_id + 1
         ELSE block_id

\* next_block_id that leaves a number out: a new block is numbered two above
\* the last.
next_block_id_skip(df, idx, block_id) ==
    IF idx = 0 THEN block_id
    ELSE IF df.rows[idx + 1]["Type"] = Int2Cell(1)
         THEN IF df.rows[idx]["Type"] = Int2Cell(4) THEN block_id + 2
              ELSE block_id
         ELSE block_id

\* One iteration of the loop of _add_block_id, on the row at position idx
\* (0-based): the block id after the row.
next_block_id(df, idx, block_id) ==
    IF idx = 0 THEN block_id
    ELSE IF df.rows[idx + 1]["Type"] = Int2Cell(1)
         THEN IF df.rows[idx]["Type"] = Int2Cell(4) THEN block_id + 1
              ELSE block_id
         ELSE block_id

\* df.insert(0, 'Block_ID', block_ids)
insert_block_id(df, block_ids) ==
    IF HasColumn(df, "Block_ID") THEN Raise("ValueError")
    ELSE Ok(Table(<<"Block_ID">> \o df.columns,
                  [i \in 1..Len(df.rows) |->
                      [c \in (DOMAIN df.rows[i]) \cup {"Block_ID"} |->
                          IF c = "Block_ID" THEN Int2Cell(block_ids[i])
                          ELSE df.rows[i][c]]]))

TypeName(v) ==
    CASE v = Int2Cell(1) -> Str("Background")
      [] v = Int2Cell(2) -> Str("ES")
      [] v = Int2Cell(3) -> Str("MEF")
      [] v = Int2Cell(4) -> Str("Unfused ES")
      [] OTHER -> v

\* df['Type'] raises KeyError when the frame has no Type column.
_rename_type_values(df) ==
    IF ~HasColumn(df, "Type") THEN Raise("KeyError")
    ELSE Ok(SetColumn(df, "Type",
                [i \in 1..Len(df.rows) |-> TypeName(df.rows[i]["Type"])]))

IsBackground(r) == r["Type"] = Str("Background")

\* background_mean not keyed by the block: the mean of the first Background
\* row of the table.
background_mean_first(bg_mean, r) ==
    IF bg_mean = <<>> THEN Null ELSE bg_mean[1].value

\* The background mean mapped to a row: that of the Background row of the
\* row's own block.
background_mean(bg_mean, r) == Lookup(bg_mean, r["Block_ID"])

_calc_corrected_integrated_density(df) ==
    LET bg_mean == SeriesOf(FilterRows(df, [i \in 1..Len(df.rows) |-> IsBackground(df.rows[i])]),
                            "Block_ID", "Mean")
        mapped  == SetColumn(df, "Background_Mean",
                       [i \in 1..Len(df.rows) |-> background_mean(bg_mean, df.rows[i])])
        cid     == SetColumn(mapped, "Corrected Integrated Density",
                       [i \in 1..Len(df.rows) |->
                           FSub(mapped.rows[i]["IntDen"],
                                FMul(mapped.rows[i]["Area"],
                                     mapped.rows[i]["Background_Mean"]))])
        masked  == SetColumn(cid, "Corrected Integrated Density",
                       [i \in 1..Len(df.rows) |->
                           IF IsBackground(cid.rows[i]) THEN Null
                           ELSE cid.rows[i]["Corrected Integrated Density"]])
    IN  \* line 71: df[...]["Mean"] needs the Mean column
        IF ~HasColumn(df, "Mean") THEN Raise("KeyError")
        \* line 74: Series.map with a Series whose index is not unique raises
        ELSE IF ~IndexIsUnique(bg_mean) THEN Raise("InvalidIndexError")
        \* line 77: df["IntDen"], df["Area"]
        ELSE IF ~HasColumn(df, "IntDen") \/ ~HasColumn(df, "Area") THEN Raise("KeyError")
        ELSE Ok(DropColumn(masked, "Background_Mean"))

corrected_mean(cid, area) == FDiv(cid, area)

_calc_corrected_mean(df) ==
    SetColumn(df, "Corrected Mean",
        [i \in 1..Len(df.rows) |->
            corrected_mean(df.rows[i]["Corrected Integrated Density"],
                           df.rows[i]["Area"])])

\* df[columns]: KeyError when a listed column is not in the frame.
SelectColumns(df, columns) ==
    IF \E i \in 1..Len(columns) : ~HasColumn(df, columns[i]) THEN Raise("KeyError")
    ELSE Ok(Table(columns, df.rows))

label_last(df) ==
    SelectColumns(df, SelectSeq(df.columns, LAMBDA c : c # "Label") \o <<"Label">>)

block_id_first(df) ==
    SelectColumns(df, <<"Block_ID">> \o SelectSeq(df.columns, LAMBDA c : c # "Block_ID"))

\* prepare_data after the loop of _add_block_id: the rest of clean_data, the
\* derived columns and the reordering of the columns.
prepare_data_tail(df, block_ids) ==
    LET inserted == insert_block_id(df, block_ids)
        renamed  == IF inserted.status # "ok" THEN inserted
                    ELSE _rename_type_values(inserted.table)
        cid      == IF renamed.status # "ok" THEN renamed
                    ELSE _calc_corrected_integrated_density(renamed.table)
        labelled == IF cid.status # "ok" THEN cid
                    ELSE label_last(_calc_corrected_mean(cid.table))
    IN  \* the first exception raised ends the call
        IF labelled.status # "ok" THEN labelled
        ELSE block_id_first(labelled.table)

-----------------------------------------------------------------------------
(* Feature registry and built-in features: src/src/features.py *)

\* A dict (insertion ordered): the sequence of its items.
Item(name, func) == [name |-> name, func |-> func]

Keys(dict) == [i \in 1..Len(dict) |-> dict[i].name]

HasKey(dict, name) == \E i \in 1..Len(dict) : dict[i].name = name

Get(dict, name) == dict[CHOOSE i \in 1..Len(dict) : dict[i].name = name].func

\* dict[name] = func: an existing key keeps its place, a new one goes last.
SetItem(dict, name, func) ==
    IF HasKey(dict, name)
    THEN [i \in 1..Len(dict) |->
             IF dict[i].name = name THEN Item(name, func) ELSE dict[i]]
    ELSE Append(dict, Item(name, func))

\* del dict[name]
DelItem(dict, name) == SelectSeq(dict, LAMBDA it : it.name # name)

\* register_feature(name)(func): the registry after the decorator ran.
register_feature(registry, name, func) == SetItem(registry, name, func)

\* get_all_features without the .copy(): the registry object itself.
get_all_features_alias(registry) == [ref |-> "registry", dict |-> registry]

\* get_all_features(): the object returned ("copy": a new dict; "registry":
\* the registry object itself) and its items.
get_all_features(registry) == [ref |-> "copy", dict |-> registry]

TOTAL_AREA == "Total Area"

TOTAL_OCT4 == "Total Oct4 in Heterokaryon (CID)"

TOTAL_HET == "Total HET:Single ES (CID)"

MEAN_RATIO == "Mean Oct4 Concentration Ratio in HETS:Single"

CID == "Corrected Integrated Density"

CMEAN == "Corrected Mean"

\* The register_feature calls importing src/src/features.py makes: the four
\* decorators of the module, in the order of the file.
BuiltinCalls ==
    << Item(TOTAL_AREA, "calc_total_area"),
       Item(TOTAL_OCT4, "calc_total_Oct4_heterokaryon_CID"),
       Item(TOTAL_HET, "calc_total_HET_single_ES_CID"),
       Item(MEAN_RATIO, "calc_mean_Oct4_heterokaryon_concentration_ratio_HETS_single") >>

RECURSIVE RegisterAll(_)
\* The registry after the calls, made on the empty registry.
RegisterAll(cs) ==
    IF cs = <<>> THEN <<>>
    ELSE register_feature(RegisterAll(SubSeq(cs, 1, Len(cs) - 1)),
                          cs[Len(cs)].name, cs[Len(cs)].func)

BuiltinRegistry == RegisterAll(BuiltinCalls)

RECURSIVE FSum(_)
\* Series.sum(): NaN is skipped, the sum of nothing is 0.
FSum(cells) ==
    IF cells = <<>> THEN Int2Cell(0)
    ELSE LET rest == FSum(Tail(cells))
         IN  IF IsNull(Head(cells)) THEN rest ELSE FAdd(Head(cells), rest)

HasType(r, types) == \E t \in types : r["Type"] = Str(t)

\* main_df[main_df["Type"].isin(types)].groupby("Block_ID")[col].sum(): one
\* entry per block that has a row of these types.
GroupSum(main_df, types, col) ==
    LET sel  == FilterRows(main_df,
                    [i \in 1..Len(main_df.rows) |-> HasType(main_df.rows[i], types)])
        keys == Unique([i \in 1..Len(sel.rows) |-> sel.rows[i]["Block_ID"]])
    IN  [g \in 1..Len(keys) |->
            Entry(keys[g],
                  FSum([i \in 1..Len(SelectSeq(sel.rows, LAMBDA r : r["Block_ID"] = keys[g])) |->
                           SelectSeq(sel.rows, LAMBDA r : r["Block_ID"] = keys[g])[i][col]]))]

\* main_df[main_df["Type"] == type].set_index("Block_ID")[col]
TypeSeries(main_df, type, col) ==
    SeriesOf(FilterRows(main_df,
                 [i \in 1..Len(main_df.rows) |-> main_df.rows[i]["Type"] = Str(type)]),
             "Block_ID", col)

\* MapBlocks not keyed by the block: every feature row gets the first entry.
MapBlocks_first(feature_df, series) ==
    [i \in 1..Len(feature_df.rows) |->
        IF series = <<>> THEN Null ELSE series[1].value]

\* feature_df["Block_ID"].map(series), one cell per feature row
MapBlocks(feature_df, series) ==
    [i \in 1..Len(feature_df.rows) |-> Lookup(series, feature_df.rows[i]["Block_ID"])]

\* calc_total_area that hands the feature rows back in reverse order.
calc_total_area_reversed(feature_df, main_df) ==
    LET t == SetColumn(feature_df, TOTAL_AREA,
                 MapBlocks(feature_df, GroupSum(main_df, {"ES", "MEF"}, "Area")))
    IN  Ok(Table(t.columns, [i \in 1..Len(t.rows) |-> t.rows[Len(t.rows) + 1 - i]]))

calc_total_area(feature_df, main_df) ==
    Ok(SetColumn(feature_df, TOTAL_AREA,
          MapBlocks(feature_df, GroupSum(main_df, {"ES", "MEF"}, "Area"))))

calc_total_Oct4_heterokaryon_CID(feature_df, main_df) ==
    Ok(SetColumn(feature_df, TOTAL_OCT4,
          MapBlocks(feature_df, GroupSum(main_df, {"ES", "MEF"}, CID))))

calc_total_HET_single_ES_CID(feature_df, main_df) ==
    LET unfused == TypeSeries(main_df, "Unfused ES", CID)
    IN  IF ~HasColumn(feature_df, TOTAL_OCT4) THEN Raise("KeyError")
        ELSE IF ~IndexIsUnique(unfused) THEN Raise("InvalidIndexError")
        ELSE Ok(SetColumn(feature_df, TOTAL_HET,
                   [i \in 1..Len(feature_df.rows) |->
                       FDiv(feature_df.rows[i][TOTAL_OCT4],
                            Lookup(unfused, feature_df.rows[i]["Block_ID"]))]))

calc_mean_Oct4_heterokaryon_concentration_ratio_HETS_single(feature_df, main_df) ==
    LET mean_es      == TypeSeries(main_df, "ES", CMEAN)
        mean_mef     == TypeSeries(main_df, "MEF", CMEAN)
        mean_unfused == TypeSeries(main_df, "Unfused ES", CMEAN)
    IN  IF ~IndexIsUnique(mean_es) \/ ~IndexIsUnique(mean_mef)
           \/ ~IndexIsUnique(mean_unfused)
        THEN Raise("InvalidIndexError")
        ELSE Ok(SetColumn(feature_df, MEAN_RATIO,
                   [i \in 1..Len(feature_df.rows) |->
                       FDiv(FAdd(Lookup(mean_es, feature_df.rows[i]["Block_ID"]),
                                 Lookup(mean_mef, feature_df.rows[i]["Block_ID"])),
                            Lookup(mean_unfused, feature_df.rows[i]["Block_ID"]))]))

\* calc_func(feature_df, main_df) for the function registered as func
Call(func, feature_df, main_df) ==
    CASE func = "calc_total_area" -> calc_total_area(feature_df, main_df)
      [] func = "calc_total_Oct4_heterokaryon_CID" ->
            calc_total_Oct4_heterokaryon_CID(feature_df, main_df)
      [] func = "calc_total_HET_single_ES_CID" ->
            calc_total_HET_single_ES_CID(feature_df, main_df)
      [] OTHER ->
            calc_mean_Oct4_heterokaryon_concentration_ratio_HETS_single(feature_df, main_df)

-----------------------------------------------------------------------------
(* Feature aggregator: create_feature_dataframe of src/src/data_cleaning.py *)

\* feature_df["Block_ID"] = main_df["Block_ID"].unique()
block_skeleton(main_df) ==
    LET ids == Unique([i \in 1..Len(main_df.rows) |-> main_df.rows[i]["Block_ID"]])
    IN  Table(<<"Block_ID">>, [i \in 1..Len(ids) |-> [c \in {"Block_ID"} |-> ids[i]]])

\* main_df[main_df["Type"] != "Background"]
drop_background(main_df) ==
    FilterRows(main_df, [i \in 1..Len(main_df.rows) |-> ~IsBackground(main_df.rows[i])])

\* The type labels in the sorted order pivot gives its columns.
TypeOrder == <<"ES", "MEF", "Unfused ES">>

PivotColumn(metric, type) == metric \o " (" \o type \o ")"

RECURSIVE Ascending(_)
\* The numbers of a set in ascending order.
Ascending(S) ==
    IF S = {} THEN <<>>
    ELSE LET m == CHOOSE x \in S : \A y \in S : x <= y
         IN  <<m>> \o Ascending(S \ {m})

\* pivot finds two rows for one (Block_ID, Type) cell
PivotDuplicates(aux) ==
    \E i, j \in 1..Len(aux.rows) :
        /\ i # j
        /\ aux.rows[i]["Block_ID"] = aux.rows[j]["Block_ID"]
        /\ aux.rows[i]["Type"] = aux.rows[j]["Type"]

\* aux.pivot(index="Block_ID", columns="Type", values=[CID, CMEAN]) with the
\* columns flattened to "metric (type)" and the index reset: one row per block
\* of aux, in ascending Block_ID order, one column per metric and per type that
\* occurs in aux, NaN where the block has no row of the type.
pivot(aux) ==
    LET types  == SelectSeq(TypeOrder,
                      LAMBDA t : \E i \in 1..Len(aux.rows) : aux.rows[i]["Type"] = Str(t))
        blocks == Ascending({aux.rows[i]["Block_ID"].n : i \in 1..Len(aux.rows)})
        cols   == [i \in 1..Len(types) |-> PivotColumn(CID, types[i])]
                  \o [i \in 1..Len(types) |-> PivotColumn(CMEAN, types[i])]
        Cell(b, c) ==
            IF c = "Block_ID" THEN Int2Cell(b)
            ELSE LET hit == {<<i, m, t>> \in (1..Len(aux.rows)) \X {CID, CMEAN} \X Range(types) :
                                /\ aux.rows[i]["Block_ID"] = Int2Cell(b)
                                /\ aux.rows[i]["Type"] = Str(t)
                                /\ PivotColumn(m, t) = c}
                 IN  IF hit = {} THEN Null
                     ELSE LET h == CHOOSE h \in hit : TRUE IN aux.rows[h[1]][h[2]]
    IN  IF PivotDuplicates(aux) THEN Raise("ValueError")
        ELSE Ok(Table(<<"Block_ID">> \o cols,
                      [k \in 1..Len(blocks) |->
                          [c \in {"Block_ID"} \cup Range(cols) |-> Cell(blocks[k], c)]]))

\* left.merge(right, on="Block_ID", how="left"), right holding distinct
\* Block_IDs: every row of left, in left's order, with right's other columns
\* (NaN where right has no row of the block).
merge_left(left, right) ==
    LET extra == SelectSeq(right.columns, LAMBDA c : ~HasColumn(left, c))
        Match(r) == SelectSeq(right.rows, LAMBDA q : q["Block_ID"] = r["Block_ID"])
    IN  Table(left.columns \o extra,
              [i \in 1..Len(left.rows) |->
                  [c \in Range(left.columns) \cup Range(extra) |->
                      IF HasColumn(left, c) THEN left.rows[i][c]
                      ELSE IF Match(left.rows[i]) = <<>> THEN Null
                      ELSE Match(left.rows[i])[1][c]]])

\* feature_df = pivoted_df.merge(feature_df, on="Block_ID", how="left")
merge_pivot(pivoted_df, feature_df) == merge_left(pivoted_df, feature_df)

\* The feature_names argument: None, or a list of names.
None == [given |-> FALSE, names |-> <<>>]

Names(names) == [given |-> TRUE, names |-> names]

\* The feature_names arguments drawn.
FeatureNameChoices ==
    { None,
      Names(<<TOTAL_AREA, TOTAL_HET>>),
      Names(<<"Unregistered", TOTAL_HET, TOTAL_OCT4>>),
      Names(<<MEAN_RATIO, TOTAL_AREA, MEAN_RATIO>>) }

RECURSIVE DictOf(_, _)
\* {name: all_features[name] for name in names if name in all_features}
DictOf(names, all_features) ==
    IF names = <<>> THEN <<>>
    ELSE LET front == DictOf(SubSeq(names, 1, Len(names) - 1), all_features)
             name  == names[Len(names)]
         IN  IF HasKey(all_features, name)
             THEN SetItem(front, name, Get(all_features, name))
             ELSE front

select_features(all_features, feature_names) ==
    IF ~feature_names.given THEN all_features
    ELSE DictOf(feature_names.names, all_features)

\* create_feature_dataframe up to the loop over features_to_calc: the frame
\* the feature functions start from.
feature_frame(main_df) ==
    LET pivoted_df == pivot(drop_background(main_df))
    IN  IF pivoted_df.status # "ok" THEN pivoted_df
        ELSE Ok(merge_pivot(pivoted_df.table, block_skeleton(main_df)))

-----------------------------------------------------------------------------
(* Whole calls, and the cached loaders of src/main.py *)

RECURSIVE loop_block_ids(_, _)
\* The list block_ids of _add_block_id once its loop has run over the first
\* n rows.
loop_block_ids(df, n) ==
    IF n = 0 THEN <<>>
    ELSE LET before   == loop_block_ids(df, n - 1)
             block_id == IF n = 1 THEN 1 ELSE before[n - 1]
         IN  Append(before, next_block_id(df, n - 1, block_id))

\* prepare_data(raw_data_path, _): what the call returns or raises, for the
\* file at raw_data_path, when the write of line 155 does not fail.
prepare_data(file) ==
    IF ~file.exists THEN Raise("FileNotFoundError")
    ELSE LET df == _remove_blank_rows(read_csv(file))
         IN  IF Len(df.rows) >= 2 /\ ~HasColumn(df, "Type") THEN Raise("KeyError")
             ELSE prepare_data_tail(df, loop_block_ids(df, Len(df.rows)))

RECURSIVE apply_features(_, _, _)
\* for feature_name, calc_func in features_to_calc.items():
\*     feature_df = calc_func(feature_df, main_df)
apply_features(feature_df, main_df, features_to_calc) ==
    IF features_to_calc = <<>> THEN Ok(feature_df)
    ELSE LET r == Call(Head(features_to_calc).func, feature_df, main_df)
         IN  IF r.status # "ok" THEN r
             ELSE apply_features(r.table, main_df, Tail(features_to_calc))

\* create_feature_dataframe(cleaned_data_path, _, feature_names): what the
\* call returns or raises, for the file at cleaned_data_path.
create_feature_dataframe(file, registry, feature_names) ==
    IF ~file.exists THEN Raise("FileNotFoundError")
    ELSE LET main_df == read_csv(file)
             frame   == feature_frame(main_df)
         IN  IF frame.status # "ok" THEN frame
             ELSE apply_features(frame.table, main_df,
                      select_features(get_all_features(registry).dict, feature_names))

\* A call of load_cleaned_data(): what it returns or raises (ret), the
\* st.cache_data entry and the file at CLEANED_DATA_PATH after it.  A cached
\* result is returned without running the body; a result is cached when the
\* body returns.
load_cleaned_data(cache, file, raw, writable) ==
    IF cache.status = "ok" THEN [ret |-> cache, cache |-> cache, file |-> file]
    ELSE IF file.exists
    THEN [ret |-> Ok(read_csv(file)), cache |-> Ok(read_csv(file)), file |-> file]
    ELSE IF prepare_data(raw).status # "ok"
    THEN [ret |-> prepare_data(raw), cache |-> cache, file |-> file]
    ELSE IF ~writable
    THEN [ret |-> Raise("OSError"), cache |-> cache, file |-> file]
    ELSE [ret |-> prepare_data(raw), cache |-> prepare_data(raw),
          file |-> to_csv(prepare_data(raw).table)]

-----------------------------------------------------------------------------
(* State *)

VARIABLES
    pc,               \* where the run is: "start", "add_block_id", "cleaned",
                      \* "recleaned", "features", "done", "error"
    raw_file,         \* the raw CSV file at raw_data_path
    cleaned_file,     \* the CSV file at cleaned_data_path, NoFile when absent
    feature_file,     \* the CSV file at feature_data_path, NoFile when absent
    df,               \* prepare_data: the frame being cleaned
    idx,              \* _add_block_id: the position of the next row, 0-based
    block_id,         \* _add_block_id: the current block
    block_ids,        \* _add_block_id: the block ids assigned so far
    cleaned_ret,      \* what prepare_data returned or raised
    cleaned_data_path, \* prepare_data: the argument as line 154 read it:
                      \* "unset" (not read), "None", or a path the file
                      \* system lets the process write ("writable") or not
                      \* ("unwritable")
    recleaned_ret,    \* what prepare_data returned or raised when run again
                      \* on its own output without the derived columns
    main_df,          \* create_feature_dataframe: the cleaned table read
    feature_df,       \* create_feature_dataframe: the feature table so far
    features_to_calc, \* create_feature_dataframe: the features not yet applied
    feature_ret,      \* what create_feature_dataframe returned or raised
    feature_names,    \* create_feature_dataframe: the feature_names argument
    applied,          \* create_feature_dataframe: the names of the feature
                      \* functions the loop has called, oldest first
    registry,         \* _FEATURE_REGISTRY
    held,             \* the mapping a caller of get_all_features holds:
                      \* "none", "copy" (a dict of its own) or "registry"
    copy,             \* the items of the caller's own dict
    calls,            \* the register_feature calls made, oldest first
    cache_cleaned,    \* st.cache_data entry of load_cleaned_data
    cache_feature,    \* st.cache_data entry of load_feature_data
    load_ret          \* what the last load_* call returned or raised

clean_vars ==
    <<raw_file, cleaned_file, df, idx, block_id, block_ids, cleaned_ret,
      cleaned_data_path, recleaned_ret>>

feature_vars ==
    <<feature_file, main_df, feature_df, features_to_calc, feature_ret,
      feature_names, applied>>

registry_vars == <<registry, held, copy, calls>>

load_vars == <<cache_cleaned, cache_feature, load_ret>>

vars == <<pc, clean_vars, feature_vars, registry_vars, load_vars>>

\* The process once the package is imported, before any call.
Init ==
    /\ pc = "start"
    /\ raw_file \in RawFiles
    /\ cleaned_file = NoFile
    /\ feature_file = NoFile
    /\ df = NoTable
    /\ idx = 0
    /\ block_id = 1
    /\ block_ids = <<>>
    /\ cleaned_ret = NotCalled
    /\ cleaned_data_path = "unset"
    /\ recleaned_ret = NotCalled
    /\ main_df = NoTable
    /\ feature_df = NoTable
    /\ features_to_calc = <<>>
    /\ feature_ret = NotCalled
    /\ feature_names = None
    /\ applied = <<>>
    /\ registry = BuiltinRegistry
    /\ held = "none"
    /\ copy = <<>>
    /\ calls = BuiltinCalls
    /\ cache_cleaned = NotCalled
    /\ cache_feature = NotCalled
    /\ load_ret = NotCalled

\* The same, the raw file being one put together from whole blocks.
InitBlocks ==
    /\ pc = "start"
    /\ raw_file \in RawFilesByBlock
    /\ cleaned_file = NoFile
    /\ feature_file = NoFile
    /\ df = NoTable
    /\ idx = 0
    /\ block_id = 1
    /\ block_ids = <<>>
    /\ cleaned_ret = NotCalled
    /\ cleaned_data_path = "unset"
    /\ recleaned_ret = NotCalled
    /\ main_df = NoTable
    /\ feature_df = NoTable
    /\ features_to_calc = <<>>
    /\ feature_ret = NotCalled
    /\ feature_names = None
    /\ applied = <<>>
    /\ registry = BuiltinRegistry
    /\ held = "none"
    /\ copy = <<>>
    /\ calls = BuiltinCalls
    /\ cache_cleaned = NotCalled
    /\ cache_feature = NotCalled
    /\ load_ret = NotCalled

\* src/src/features.py at line 14: the registry just created, no decorator
\* run yet.
InitRegistry ==
    /\ pc = "start"
    /\ raw_file = NoFile
    /\ cleaned_file = NoFile
    /\ feature_file = NoFile
    /\ df = NoTable
    /\ idx = 0
    /\ block_id = 1
    /\ block_ids = <<>>
    /\ cleaned_ret = NotCalled
    /\ cleaned_data_path = "unset"
    /\ recleaned_ret = NotCalled
    /\ main_df = NoTable
    /\ feature_df = NoTable
    /\ features_to_calc = <<>>
    /\ feature_ret = NotCalled
    /\ feature_names = None
    /\ applied = <<>>
    /\ registry = <<>>
    /\ held = "none"
    /\ copy = <<>>
    /\ calls = <<>>
    /\ cache_cleaned = NotCalled
    /\ cache_feature = NotCalled
    /\ load_ret = NotCalled

\* The names and functions the register_feature calls followed draw from.
RegistryNames == {TOTAL_AREA, TOTAL_OCT4, "Custom"}

RegistryFuncs == {"calc_total_area", "calc_custom"}

\* @register_feature(name) applied to func
RegisterFeature ==
    /\ Len(calls) < MaxCalls
    /\ \E name \in RegistryNames, func \in RegistryFuncs :
          /\ registry' = register_feature(registry, name, func)
          /\ calls' = Append(calls, Item(name, func))
    /\ UNCHANGED <<pc, clean_vars, feature_vars, load_vars, held, copy>>

\* a caller takes get_all_features()
GetAllFeatures ==
    /\ held' = get_all_features(registry).ref
    /\ copy' = IF held' = "copy" THEN get_all_features(registry).dict ELSE copy
    /\ UNCHANGED <<pc, clean_vars, feature_vars, load_vars, registry, calls>>

\* The dict the caller holds, with new items.
Store(items) ==
    IF held = "copy" THEN copy' = items /\ UNCHANGED registry
    ELSE registry' = items /\ UNCHANGED copy

\* the caller adds, replaces or removes an entry of the mapping it holds
MutateHeld ==
    /\ held # "none"
    /\ LET items == IF held = "copy" THEN copy ELSE registry
       IN  \/ \E name \in RegistryNames, func \in RegistryFuncs :
                 Store(SetItem(items, name, func))
           \/ \E name \in RegistryNames :
                 HasKey(items, name) /\ Store(DelItem(items, name))
    /\ UNCHANGED <<pc, clean_vars, feature_vars, load_vars, held, calls>>

\* prepare_data -> clean_data up to the loop of _add_block_id
PrepareDataBegin ==
    /\ pc = "start"
    /\ pc' = "add_block_id"
    /\ df' = _remove_blank_rows(read_csv(raw_file))
    /\ idx' = 0
    /\ block_id' = 1
    /\ block_ids' = <<>>
    /\ UNCHANGED <<raw_file, cleaned_file, cleaned_ret, cleaned_data_path,
                   recleaned_ret, feature_vars, registry_vars, load_vars>>

\* one iteration of `for idx, row in df.iterrows()`
AddBlockIdStep ==
    /\ pc = "add_block_id"
    /\ idx < Len(df.rows)
    /\ idx = 0 \/ HasColumn(df, "Type")
    /\ block_id' = next_block_id(df, idx, block_id)
    /\ block_ids' = Append(block_ids, block_id')
    /\ idx' = idx + 1
    /\ UNCHANGED <<pc, raw_file, cleaned_file, df, cleaned_ret, cleaned_data_path,
                   recleaned_ret, feature_vars, registry_vars, load_vars>>

\* an iteration after the first on a frame without a Type column:
\* row['Type'] at line 37 raises KeyError, which ends prepare_data
AddBlockIdRaise ==
    /\ pc = "add_block_id"
    /\ idx < Len(df.rows)
    /\ idx # 0 /\ ~HasColumn(df, "Type")
    /\ cleaned_ret' = Raise("KeyError")
    /\ pc' = "error"
    /\ UNCHANGED <<raw_file, cleaned_file, df, idx, block_id, block_ids,
                   cleaned_data_path, recleaned_ret, feature_vars, registry_vars,
                   load_vars>>

\* the rest of prepare_data, returning the cleaned table; with a
\* cleaned_data_path the table is written there
PrepareDataReturn ==
    /\ pc = "add_block_id"
    /\ idx = Len(df.rows)
    /\ prepare_data_tail(df, block_ids).status = "ok"
    /\ cleaned_ret' = prepare_data_tail(df, block_ids)
    /\ df' = cleaned_ret'.table
    /\ cleaned_data_path' \in {"None", "writable"}
    /\ cleaned_file' = IF cleaned_data_path' = "None" THEN cleaned_file
                       ELSE to_csv(cleaned_ret'.table)
    /\ pc' = "cleaned"
    /\ UNCHANGED <<raw_file, idx, block_id, block_ids, recleaned_ret,
                   feature_vars, registry_vars, load_vars>>

\* the rest of prepare_data when df.to_csv(cleaned_data_path) at line 155
\* fails: nothing catches the exception, it ends the call
PrepareDataWriteRaise ==
    /\ pc = "add_block_id"
    /\ idx = Len(df.rows)
    /\ prepare_data_tail(df, block_ids).status = "ok"
    /\ cleaned_data_path' = "unwritable"
    /\ df' = prepare_data_tail(df, block_ids).table
    /\ cleaned_ret' = Raise("OSError")
    /\ pc' = "error"
    /\ UNCHANGED <<raw_file, cleaned_file, idx, block_id, block_ids, recleaned_ret,
                   feature_vars, registry_vars, load_vars>>

\* the rest of prepare_data, ending in an exception
PrepareDataRaise ==
    /\ pc = "add_block_id"
    /\ idx = Len(df.rows)
    /\ prepare_data_tail(df, block_ids).status = "error"
    /\ cleaned_ret' = prepare_data_tail(df, block_ids)
    /\ pc' = "error"
    /\ UNCHANGED <<raw_file, cleaned_file, df, idx, block_id, block_ids,
                   cleaned_data_path, recleaned_ret, feature_vars, registry_vars,
                   load_vars>>

\* The cleaned table without its derived columns.
strip_derived(t) ==
    DropColumn(DropColumn(DropColumn(t, "Block_ID"), CID), CMEAN)

\* prepare_data run again, on the file holding the cleaned table it returned
\* less the derived columns
Reclean ==
    /\ pc = "cleaned"
    /\ recleaned_ret' = prepare_data(to_csv(strip_derived(cleaned_ret.table)))
    /\ pc' = "recleaned"
    /\ UNCHANGED <<raw_file, cleaned_file, df, idx, block_id, block_ids, cleaned_ret,
                   cleaned_data_path, feature_vars, registry_vars, load_vars>>

\* create_feature_dataframe(cleaned_data_path, _, feature_names) up to the
\* loop over the selected features
CreateFeatureBegin ==
    /\ pc = "cleaned"
    /\ cleaned_file.exists
    /\ feature_frame(read_csv(cleaned_file)).status = "ok"
    /\ main_df' = read_csv(cleaned_file)
    /\ feature_df' = feature_frame(main_df').table
    /\ feature_names' \in FeatureNameChoices
    /\ features_to_calc' =
          select_features(get_all_features(registry).dict, feature_names')
    /\ pc' = "features"
    /\ UNCHANGED <<clean_vars, feature_file, feature_ret, applied, registry_vars,
                   load_vars>>

\* create_feature_dataframe raising before the loop: no file at
\* cleaned_data_path, or a pivot cell with two rows
CreateFeatureRaise ==
    /\ pc = "cleaned"
    /\ feature_ret' =
          IF ~cleaned_file.exists THEN Raise("FileNotFoundError")
          ELSE feature_frame(read_csv(cleaned_file))
    /\ feature_ret'.status = "error"
    /\ pc' = "error"
    /\ UNCHANGED <<clean_vars, feature_file, main_df, feature_df, features_to_calc,
                   feature_names, applied, registry_vars, load_vars>>

\* one iteration of `for feature_name, calc_func in features_to_calc.items()`
ApplyFeature ==
    /\ pc = "features"
    /\ features_to_calc # <<>>
    /\ Call(Head(features_to_calc).func, feature_df, main_df).status = "ok"
    /\ feature_df' = Call(Head(features_to_calc).func, feature_df, main_df).table
    /\ features_to_calc' = Tail(features_to_calc)
    /\ applied' = Append(applied, Head(features_to_calc).name)
    /\ UNCHANGED <<pc, clean_vars, feature_file, main_df, feature_ret, feature_names,
                   registry_vars, load_vars>>

\* a feature function raising: the exception ends create_feature_dataframe
ApplyFeatureRaise ==
    /\ pc = "features"
    /\ features_to_calc # <<>>
    /\ feature_ret' = Call(Head(features_to_calc).func, feature_df, main_df)
    /\ feature_ret'.status = "error"
    /\ applied' = Append(applied, Head(features_to_calc).name)
    /\ pc' = "error"
    /\ UNCHANGED <<clean_vars, feature_file, main_df, feature_df, features_to_calc,
                   feature_names, registry_vars, load_vars>>

\* create_feature_dataframe returning the feature table; with a
\* feature_data_path the table is written there
CreateFeatureReturn ==
    /\ pc = "features"
    /\ features_to_calc = <<>>
    /\ feature_ret' = Ok(feature_df)
    /\ \E feature_data_path \in BOOLEAN :
          feature_file' = IF feature_data_path THEN to_csv(feature_df)
                          ELSE feature_file
    /\ pc' = "done"
    /\ UNCHANGED <<clean_vars, main_df, feature_df, features_to_calc, feature_names,
                   applied, registry_vars, load_vars>>

Next ==
    \/ PrepareDataBegin
    \/ AddBlockIdStep
    \/ PrepareDataReturn
    \/ PrepareDataWriteRaise
    \/ PrepareDataRaise
    \/ Reclean
    \/ CreateFeatureBegin
    \/ CreateFeatureRaise
    \/ ApplyFeature
    \/ ApplyFeatureRaise
    \/ CreateFeatureReturn

Spec == Init /\ [][Next]_vars

SpecBlocks == InitBlocks /\ [][Next]_vars

\* The process before any call, the raw file being one that lacks a required
\* column or holds text in its Type column (or neither).
InitMalformed ==
    /\ pc = "start"
    /\ raw_file \in MalformedFiles
    /\ cleaned_file = NoFile
    /\ feature_file = NoFile
    /\ df = NoTable
    /\ idx = 0
    /\ block_id = 1
    /\ block_ids = <<>>
    /\ cleaned_ret = NotCalled
    /\ cleaned_data_path = "unset"
    /\ recleaned_ret = NotCalled
    /\ main_df = NoTable
    /\ feature_df = NoTable
    /\ features_to_calc = <<>>
    /\ feature_ret = NotCalled
    /\ feature_names = None
    /\ applied = <<>>
    /\ registry = BuiltinRegistry
    /\ held = "none"
    /\ copy = <<>>
    /\ calls = BuiltinCalls
    /\ cache_cleaned = NotCalled
    /\ cache_feature = NotCalled
    /\ load_ret = NotCalled

\* prepare_data alone
NextPrepare ==
    \/ PrepareDataBegin
    \/ AddBlockIdStep
    \/ AddBlockIdRaise
    \/ PrepareDataReturn
    \/ PrepareDataWriteRaise
    \/ PrepareDataRaise

SpecMalformed == InitMalformed /\ [][NextPrepare]_vars

\* The files a session of the dashboard starts with: a raw file, and each of
\* the two derived files either absent or as the pipeline writes it.
InitLoad ==
    /\ pc = "start"
    /\ raw_file \in RawFilesByBlock
    /\ cleaned_file \in {NoFile} \cup
          (IF prepare_data(raw_file).status = "ok"
           THEN {to_csv(prepare_data(raw_file).table)} ELSE {})
    /\ feature_file \in {NoFile} \cup
          (IF /\ cleaned_file.exists
              /\ create_feature_dataframe(cleaned_file, BuiltinRegistry, None).status = "ok"
           THEN {to_csv(create_feature_dataframe(cleaned_file, BuiltinRegistry, None).table)}
           ELSE {})
    /\ df = NoTable
    /\ idx = 0
    /\ block_id = 1
    /\ block_ids = <<>>
    /\ cleaned_ret = NotCalled
    /\ cleaned_data_path = "unset"
    /\ recleaned_ret = NotCalled
    /\ main_df = NoTable
    /\ feature_df = NoTable
    /\ features_to_calc = <<>>
    /\ feature_ret = NotCalled
    /\ feature_names = None
    /\ applied = <<>>
    /\ registry = BuiltinRegistry
    /\ held = "none"
    /\ copy = <<>>
    /\ calls = BuiltinCalls
    /\ cache_cleaned = NotCalled
    /\ cache_feature = NotCalled
    /\ load_ret = NotCalled

\* load_cleaned_data() called by the dashboard
LoadCleanedData ==
    /\ \E writable \in BOOLEAN :
        \E call \in {load_cleaned_data(cache_cleaned, cleaned_file, raw_file, writable)} :
              /\ load_ret' = call.ret
              /\ cache_cleaned' = call.cache
              /\ cleaned_file' = call.file
    /\ UNCHANGED <<pc, raw_file, df, idx, block_id, block_ids, cleaned_ret,
                   cleaned_data_path, recleaned_ret, feature_vars, registry_vars,
                   cache_feature>>

\* load_feature_data() called by the dashboard
LoadFeatureData ==
    /\ \E writable \in BOOLEAN :
        \E inner \in {load_cleaned_data(cache_cleaned, cleaned_file, raw_file, writable)} :
        \E made \in {create_feature_dataframe(inner.file, registry, None)} :
              IF cache_feature.status = "ok"
              THEN /\ load_ret' = cache_feature
                   /\ UNCHANGED <<cache_feature, cache_cleaned, cleaned_file, feature_file>>
              ELSE IF feature_file.exists
              THEN /\ load_ret' = Ok(read_csv(feature_file))
                   /\ cache_feature' = load_ret'
                   /\ UNCHANGED <<cache_cleaned, cleaned_file, feature_file>>
              ELSE \* line 48: _ = load_cleaned_data()
                   /\ cache_cleaned' = inner.cache
                   /\ cleaned_file' = inner.file
                   /\ IF inner.ret.status # "ok"
                      THEN /\ load_ret' = inner.ret
                           /\ UNCHANGED <<cache_feature, feature_file>>
                      \* line 49: create_feature_dataframe(CLEANED_DATA_PATH,
                      \* FEATURE_DATA_PATH)
                      ELSE IF made.status # "ok"
                      THEN /\ load_ret' = made
                           /\ UNCHANGED <<cache_feature, feature_file>>
                      ELSE IF ~writable
                      THEN /\ load_ret' = Raise("OSError")
                           /\ UNCHANGED <<cache_feature, feature_file>>
                      ELSE /\ load_ret' = made
                           /\ cache_feature' = made
                           /\ feature_file' = to_csv(made.table)
    /\ UNCHANGED <<pc, raw_file, df, idx, block_id, block_ids, cleaned_ret,
                   cleaned_data_path, recleaned_ret, main_df, feature_df,
                   features_to_calc, feature_ret, feature_names, applied,
                   registry_vars>>

\* a derived file is removed from the data directory, outside the process
RemoveFile ==
    /\ \/ cleaned_file.exists /\ cleaned_file' = NoFile /\ UNCHANGED feature_file
       \/ feature_file.exists /\ feature_file' = NoFile /\ UNCHANGED cleaned_file
    /\ UNCHANGED <<pc, raw_file, df, idx, block_id, block_ids, cleaned_ret,
                   cleaned_data_path, recleaned_ret, main_df, feature_df,
                   features_to_calc, feature_ret, feature_names, applied,
                   registry_vars, load_vars>>

NextLoad ==
    \/ LoadCleanedData
    \/ LoadFeatureData
    \/ RemoveFile

SpecLoad == InitLoad /\ [][NextLoad]_vars

NextRegistry ==
    \/ RegisterFeature
    \/ GetAllFeatures
    \/ MutateHeld

SpecRegistry == InitRegistry /\ [][NextRegistry]_vars

-----------------------------------------------------------------------------
(* Properties *)

\* The Type codes of the raw file's rows that are not blank, in order.
RawCodes ==
    LET rows == SelectSeq(raw_file.rows, LAMBDA r : r["Type"] # Str(""))
    IN  [i \in 1..Len(rows) |-> rows[i]["Type"].n]

HasBlankRow == \E i \in 1..Len(raw_file.rows) : raw_file.rows[i]["Type"] = Str("")

\* The loop of _add_block_id has run over every row.
LoopDone == pc # "start" /\ idx = Len(df.rows)

\* prepare_data has returned or raised.
Prepared == cleaned_ret.status # "none"

\* The cleaned table prepare_data returned.
Cleaned == cleaned_ret.table

\* The feature table create_feature_dataframe returned.
Features == feature_ret.table

\* The positions of the 4 -> 1 transitions of the raw Type codes.
Transitions == {i \in 2..Len(RawCodes) : RawCodes[i - 1] = 4 /\ RawCodes[i] = 1}

\* C1: the first row gets Block_ID 1; a later row gets the previous row's
\* Block_ID plus 1 iff its Type code is 1 and the preceding row's is 4, and
\* the previous row's Block_ID otherwise.  This holds of the ids assigned so
\* far at every step of the loop, the loop assigns one id per non-blank row,
\* and the ids are the Block_ID column of the cleaned table returned.
C1_BlockSegmentationRule ==
    /\ Len(block_ids) <= Len(RawCodes)
    /\ \A i \in 1..Len(block_ids) :
          block_ids[i] =
              IF i = 1 THEN 1
              ELSE IF RawCodes[i] = 1 /\ RawCodes[i - 1] = 4 THEN block_ids[i - 1] + 1
              ELSE block_ids[i - 1]
    /\ LoopDone => Len(block_ids) = Len(RawCodes)
    /\ cleaned_ret.status = "ok" =>
          /\ Len(Cleaned.rows) = Len(block_ids)
          /\ \A i \in 1..Len(block_ids) :
                Cleaned.rows[i]["Block_ID"] = Int2Cell(block_ids[i])

\* C1's case: the loop is over a table in which one Type-1 row follows a
\* Type-4 row and another Type-1 row follows a row of Type 1, 2 or 3.
C1_Witness ==
    /\ LoopDone
    /\ Transitions # {}
    /\ \E j \in 2..Len(RawCodes) : RawCodes[j] = 1 /\ RawCodes[j - 1] \in {1, 2, 3}
    /\ \E i \in 2..Len(block_ids) : block_ids[i] = block_ids[i - 1] + 1

\* C2: for an input with no blank rows whose Type codes begin with 1, the
\* number of distinct Block_IDs, of the segmenter's result and of the cleaned
\* table returned, is the number of 4 -> 1 transitions plus one.
C2_BlockCount ==
    (LoopDone /\ ~HasBlankRow /\ RawCodes # <<>> /\ RawCodes[1] = 1) =>
        /\ Cardinality(Range(block_ids)) = Cardinality(Transitions) + 1
        /\ cleaned_ret.status = "ok" =>
              Cardinality({Cleaned.rows[i]["Block_ID"] : i \in 1..Len(Cleaned.rows)})
                  = Cardinality(Transitions) + 1

\* C2's case: a cleaned table of two blocks or more was returned for such an
\* input.
C2_Witness ==
    /\ pc = "cleaned"
    /\ ~HasBlankRow
    /\ RawCodes # <<>> /\ RawCodes[1] = 1
    /\ Transitions # {}
    /\ Cardinality({Cleaned.rows[i]["Block_ID"] : i \in 1..Len(Cleaned.rows)}) >= 2

SameBlock(t, i, j) == t.rows[i]["Block_ID"] = t.rows[j]["Block_ID"]

RowIsBackground(t, i) == t.rows[i]["Type"] = Str("Background")

\* IntDen - Area x Mean(background row j) of row i, in integers: the raw
\* measurements are whole numbers.
CorrectedAgainst(t, i, j) ==
    Int2Cell(t.rows[i]["IntDen"].n - t.rows[i]["Area"].n * t.rows[j]["Mean"].n)

\* C3: in the cleaned table returned, a Background row's Corrected Integrated
\* Density is null, and any other row's is IntDen - Area x the Mean of the
\* Background row of its own block.
C3_CorrectedIntegratedDensity ==
    cleaned_ret.status = "ok" =>
        \A i \in 1..Len(Cleaned.rows) :
            IF RowIsBackground(Cleaned, i) THEN Cleaned.rows[i][CID] = Null
            ELSE \A j \in 1..Len(Cleaned.rows) :
                    (SameBlock(Cleaned, i, j) /\ RowIsBackground(Cleaned, j)) =>
                        Cleaned.rows[i][CID] = CorrectedAgainst(Cleaned, i, j)

\* C3's case: a cleaned table with two blocks whose Background rows have
\* different Means, and a row of positive Area corrected in the second.
C3_Witness ==
    /\ cleaned_ret.status = "ok"
    /\ \E i, j, k \in 1..Len(Cleaned.rows) :
          /\ RowIsBackground(Cleaned, j) /\ RowIsBackground(Cleaned, k)
          /\ Cleaned.rows[j]["Mean"] # Cleaned.rows[k]["Mean"]
          /\ ~SameBlock(Cleaned, j, k)
          /\ SameBlock(Cleaned, i, k) /\ ~RowIsBackground(Cleaned, i)
          /\ Cleaned.rows[i]["Area"].n > 0
          /\ Cleaned.rows[i][CID] = CorrectedAgainst(Cleaned, i, k)
          /\ Cleaned.rows[i][CID] # CorrectedAgainst(Cleaned, i, j)

\* The blocks the segmenter made that hold no Type-1 (Background) row.
BlocksWithoutBackground ==
    {b \in Range(block_ids) :
        ~\E i \in 1..Len(block_ids) : block_ids[i] = b /\ RawCodes[i] = 1}

\* C4: when a block has no Background row, prepare_data does not raise, the
\* rows of that block have null Corrected Integrated Density and Corrected
\* Mean, and the rows of the blocks that have a Background row are corrected
\* against it.
C4_MissingBackground ==
    (Prepared /\ cleaned_data_path # "unwritable" /\ BlocksWithoutBackground # {}) =>
        /\ cleaned_ret.status = "ok"
        /\ \A i \in 1..Len(Cleaned.rows) :
              IF block_ids[i] \in BlocksWithoutBackground
              THEN Cleaned.rows[i][CID] = Null /\ Cleaned.rows[i][CMEAN] = Null
              ELSE \A j \in 1..Len(Cleaned.rows) :
                      (SameBlock(Cleaned, i, j) /\ RowIsBackground(Cleaned, j)
                       /\ ~RowIsBackground(Cleaned, i)) =>
                          Cleaned.rows[i][CID] = CorrectedAgainst(Cleaned, i, j)

\* C4, of the calls that return: whenever prepare_data returns a table, the
\* rows of a block without a Background row have null corrected values.
C4_NullWhenReturned ==
    cleaned_ret.status = "ok" =>
        \A i \in 1..Len(Cleaned.rows) :
            block_ids[i] \in BlocksWithoutBackground =>
                Cleaned.rows[i][CID] = Null /\ Cleaned.rows[i][CMEAN] = Null

\* CID / Area for a finite CID and a non-zero Area, by cross-multiplication.
Quotient(cid, area) == Num(cid.n * area.d, cid.d * area.n)

\* C5: in the cleaned table returned, Corrected Mean is Corrected Integrated
\* Density / Area when Area is not zero (null when the density is null), and
\* null when Area is zero.
C5_CorrectedMean ==
    cleaned_ret.status = "ok" =>
        \A i \in 1..Len(Cleaned.rows) :
            Cleaned.rows[i][CMEAN] =
                IF Cleaned.rows[i]["Area"].n = 0 THEN Null
                ELSE IF Cleaned.rows[i][CID] = Null THEN Null
                ELSE Quotient(Cleaned.rows[i][CID], Cleaned.rows[i]["Area"])

\* C5, of the rows of non-zero Area only.
C5_NonZeroArea ==
    cleaned_ret.status = "ok" =>
        \A i \in 1..Len(Cleaned.rows) :
            Cleaned.rows[i]["Area"].n # 0 =>
                Cleaned.rows[i][CMEAN] =
                    IF Cleaned.rows[i][CID] = Null THEN Null
                    ELSE Quotient(Cleaned.rows[i][CID], Cleaned.rows[i]["Area"])

BlockColumn(t) == [i \in 1..Len(t.rows) |-> t.rows[i]["Block_ID"]]

\* C6: the feature table returned has exactly one row for every distinct
\* Block_ID of the cleaned table.
C6_OneRowPerBlock ==
    pc = "done" =>
        /\ Range(BlockColumn(Features)) = Range(BlockColumn(Cleaned))
        /\ \A i, j \in 1..Len(Features.rows) :
              Features.rows[i]["Block_ID"] = Features.rows[j]["Block_ID"] => i = j

\* The cleaned table has no row of the type in the block with a value in the
\* column.
Missing(b, type, col) ==
    ~\E i \in 1..Len(Cleaned.rows) :
        /\ Cleaned.rows[i]["Block_ID"] = b
        /\ Cleaned.rows[i]["Type"] = Str(type)
        /\ Cleaned.rows[i][col] # Null

AllBuiltinColumns(t) ==
    \A c \in {TOTAL_AREA, TOTAL_OCT4, TOTAL_HET, MEAN_RATIO} : HasColumn(t, c)

\* C7: in the feature table returned with all built-in features, a feature is
\* null for a block that lacks a row (or the corrected value of a row) its
\* formula reads.
C7_MissingTypeIsNull ==
    (pc = "done" /\ AllBuiltinColumns(Features)) =>
        \A k \in 1..Len(Features.rows) :
            LET f == Features.rows[k]
                b == f["Block_ID"]
            IN  /\ (Missing(b, "ES", "Area") \/ Missing(b, "MEF", "Area")) =>
                      f[TOTAL_AREA] = Null
                /\ (Missing(b, "ES", CID) \/ Missing(b, "MEF", CID)) =>
                      f[TOTAL_OCT4] = Null
                /\ (Missing(b, "ES", CID) \/ Missing(b, "MEF", CID)
                    \/ Missing(b, "Unfused ES", CID)) =>
                      f[TOTAL_HET] = Null
                /\ (Missing(b, "ES", CMEAN) \/ Missing(b, "MEF", CMEAN)
                    \/ Missing(b, "Unfused ES", CMEAN)) =>
                      f[MEAN_RATIO] = Null

\* C7, of the two ratios only.
C7_RatiosNull ==
    (pc = "done" /\ AllBuiltinColumns(Features)) =>
        \A k \in 1..Len(Features.rows) :
            LET f == Features.rows[k]
                b == f["Block_ID"]
            IN  /\ Missing(b, "Unfused ES", CID) => f[TOTAL_HET] = Null
                /\ (Missing(b, "ES", CMEAN) \/ Missing(b, "MEF", CMEAN)
                    \/ Missing(b, "Unfused ES", CMEAN)) =>
                      f[MEAN_RATIO] = Null

RowsOf(b, type) ==
    {i \in 1..Len(Cleaned.rows) :
        Cleaned.rows[i]["Block_ID"] = b /\ Cleaned.rows[i]["Type"] = Str(type)}

\* The block has exactly one row of each of the four types.
Complete(b) ==
    \A type \in {"Background", "ES", "MEF", "Unfused ES"} :
        Cardinality(RowsOf(b, type)) = 1

TheRow(b, type) == Cleaned.rows[CHOOSE i \in RowsOf(b, type) : TRUE]

\* C8: in the feature table returned with all built-in features, every block
\* of the cleaned table with exactly one Background, ES, MEF and Unfused ES
\* row has one feature row, holding the four formulas over the rows of that
\* block.
C8_FeatureFormulas ==
    (pc = "done" /\ AllBuiltinColumns(Features)) =>
        \A b \in Range(BlockColumn(Cleaned)) :
            Complete(b) =>
                /\ Cardinality({k \in 1..Len(Features.rows) :
                                   Features.rows[k]["Block_ID"] = b}) = 1
                /\ \A k \in 1..Len(Features.rows) :
                      Features.rows[k]["Block_ID"] = b =>
                          LET f   == Features.rows[k]
                              es  == TheRow(b, "ES")
                              mef == TheRow(b, "MEF")
                              unf == TheRow(b, "Unfused ES")
                          IN  /\ f[TOTAL_AREA] = FAdd(es["Area"], mef["Area"])
                              /\ f[TOTAL_OCT4] = FAdd(es[CID], mef[CID])
                              /\ f[TOTAL_HET] = FDiv(FAdd(es[CID], mef[CID]), unf[CID])
                              /\ f[MEAN_RATIO] =
                                    FDiv(FAdd(es[CMEAN], mef[CMEAN]), unf[CMEAN])

\* C8's case: a feature table returned for two complete blocks whose totals
\* differ, one of them the block of the worked scenario with 9, 64, 64/12
\* and 3.5.
C8_Witness ==
    /\ pc = "done"
    /\ AllBuiltinColumns(Features)
    /\ \E k, m \in 1..Len(Features.rows) :
          /\ Complete(Features.rows[k]["Block_ID"])
          /\ Complete(Features.rows[m]["Block_ID"])
          /\ Features.rows[k][TOTAL_AREA] = Int2Cell(9)
          /\ Features.rows[k][TOTAL_OCT4] = Int2Cell(64)
          /\ Features.rows[k][TOTAL_HET] = Num(64, 12)
          /\ Features.rows[k][MEAN_RATIO] = Num(7, 2)
          /\ Features.rows[m][TOTAL_OCT4] # Int2Cell(64)
          /\ m < k

\* The place of the last call that registered the name.
LastCall(name) ==
    CHOOSE j \in 1..Len(calls) :
        /\ calls[j].name = name
        /\ \A m \in (j + 1)..Len(calls) : calls[m].name # name

\* C9: what get_all_features() returns holds exactly the registered names,
\* in the order of their first registration, each with the function
\* registered last under it, whatever the callers did to the mappings
\* returned before; and it is not the registry object.
C9_RegistryContents ==
    LET all == get_all_features(registry).dict
    IN  /\ Keys(all) = Unique(Keys(calls))
        /\ \A i \in 1..Len(all) : all[i].func = calls[LastCall(all[i].name)].func
        /\ held # "registry"

\* C9's case: a name was registered twice with different functions, after
\* another name, and a caller changed the mapping it got.
C9_Witness ==
    /\ held = "copy"
    /\ copy # registry
    /\ Len(registry) >= 2
    /\ \E i, j \in 1..Len(calls) :
          /\ i < j
          /\ calls[i].name = calls[j].name
          /\ calls[i].func # calls[j].func
          /\ registry[1].name = calls[i].name
          /\ registry[1].func = calls[j].func

\* C10: prepare_data returns a table whose first column is Block_ID and whose
\* last column is Label when the raw input has one; for a raw input with no
\* Label column it returns the cleaned table, without a Label column.
C10_ColumnOrder ==
    /\ cleaned_ret.status = "ok" =>
          /\ Cleaned.columns[1] = "Block_ID"
          /\ HasColumn(raw_file, "Label") =>
                Cleaned.columns[Len(Cleaned.columns)] = "Label"
    /\ (Prepared /\ ~HasColumn(raw_file, "Label")) =>
          /\ cleaned_ret.status = "ok"
          /\ Cleaned.columns[1] = "Block_ID"
          /\ ~HasColumn(Cleaned, "Label")

\* C10, of the raw inputs that have a Label column.
C10_WithLabel ==
    cleaned_ret.status = "ok" =>
        /\ Cleaned.columns[1] = "Block_ID"
        /\ Cleaned.columns[Len(Cleaned.columns)] = "Label"
        /\ HasColumn(raw_file, "Label")

\* C11: when prepare_data has a cleaned_data_path and writing the file fails,
\* the call still returns the cleaned table it built; when it has no
\* cleaned_data_path, no file is written.
C11_WriteFailureKeepsResult ==
    /\ cleaned_data_path = "unwritable" =>
          /\ cleaned_ret.status = "ok"
          /\ Cleaned = df
    /\ cleaned_data_path = "None" => ~cleaned_file.exists

\* C11, of the calls without a cleaned_data_path and of the writes that
\* succeed: nothing is written without a path, and with one the file holds
\* the table returned.
C11_WrittenOnlyWithPath ==
    /\ cleaned_data_path = "None" => cleaned_ret.status = "ok" /\ ~cleaned_file.exists
    /\ cleaned_data_path = "writable" =>
          cleaned_ret.status = "ok" /\ cleaned_file = to_csv(Cleaned)

RequiredColumns == {"Type", "Area", "Mean", "IntDen"}

LacksRequiredColumn == \E c \in RequiredColumns : ~HasColumn(raw_file, c)

\* The Type column of the raw file holds text in some row.
HasTextType ==
    /\ HasColumn(raw_file, "Type")
    /\ \E i \in 1..Len(raw_file.rows) : IsText(raw_file.rows[i]["Type"])

\* C12: prepare_data on a raw table that lacks a required column or whose
\* Type column holds a non-numeric value ends in an error and returns no
\* cleaned table.
C12_MalformedInputRejected ==
    (Prepared /\ (LacksRequiredColumn \/ HasTextType)) =>
        cleaned_ret.status = "error"

\* C12, of the missing columns only: a raw table that lacks a required
\* column ends prepare_data in a KeyError.
C12_MissingColumnRaises ==
    (Prepared /\ LacksRequiredColumn) =>
        cleaned_ret.status = "error" /\ cleaned_ret.error \in {"KeyError", "InvalidIndexError"}

\* C12, what the code does with text in the Type column when every required
\* column is there and no block has two Background rows: the text is in the
\* Type column of the table returned and its row has a Block_ID.
C12_TextTypeCarriedThrough ==
    /\ cleaned_ret.status = "ok"
    /\ HasTextType
    /\ \E i \in 1..Len(Cleaned.rows) :
          /\ Cleaned.rows[i]["Type"] = Str("abc")
          /\ Cleaned.rows[i]["Block_ID"] = Int2Cell(1)


\* C13: as long as the raw file exists, whatever derived files are present
\* and whatever load calls came before, no load call fails with
\* file-not-found.
C13_LoadNeverFileNotFound ==
    raw_file.exists => load_ret.error # "FileNotFoundError"

\* C13, of the calls made while load_cleaned_data has no cached result: such
\* a load call does not fail with file-not-found, a missing derived file
\* being regenerated from its source.
C13_RegeneratedWhenNotCached ==
    [][cache_cleaned.status # "ok" => load_ret'.error # "FileNotFoundError"]_vars


\* The feature_names argument selects the name.
Selected(name) ==
    HasKey(select_features(get_all_features(registry).dict, feature_names), name)

\* C14: once create_feature_dataframe has reached its loop over the selected
\* features, the call returns the feature table, with the column of every
\* selected feature that reads no column of another feature, whether or not
\* one of the feature functions failed.
C14_FeatureFailureIsolated ==
    (feature_ret.status # "none" /\ applied # <<>>) =>
        /\ feature_ret.status = "ok"
        /\ \A name \in {TOTAL_AREA, TOTAL_OCT4, MEAN_RATIO} :
              Selected(name) => HasColumn(Features, name)

\* C14, what the code does: the feature function called last raised, the
\* call ended with its exception, and a selected feature independent of it
\* was not computed or was computed and not returned.
C14_FailureAbortsCall ==
    /\ pc = "error" /\ feature_ret.status = "error"
    /\ applied # <<>> /\ applied[Len(applied)] = TOTAL_HET
    /\ feature_ret.error = "KeyError"
    /\ ~HasColumn(feature_df, TOTAL_OCT4)
    /\ Selected(TOTAL_AREA) \/ Selected(TOTAL_OCT4)


\* C15: running prepare_data again on the cleaned table it returned, less
\* the derived columns, returns the same cleaned table.
C15_CleaningIdempotent ==
    recleaned_ret.status # "none" => recleaned_ret = cleaned_ret

\* C15, of the cleaned tables of a single block: the second run returns the
\* same table.
C15_IdempotentOnOneBlock ==
    (recleaned_ret.status # "none"
     /\ \A i \in 1..Len(Cleaned.rows) : Cleaned.rows[i]["Block_ID"] = Int2Cell(1)) =>
        recleaned_ret = cleaned_ret

\* C15, what the second run does with two blocks that each have a Background
\* row: it puts every row in block 1 and Series.map raises.
C15_SecondRunRaises ==
    /\ recleaned_ret.status = "error"
    /\ recleaned_ret.error = "InvalidIndexError"
    /\ cleaned_ret.status = "ok"
    /\ Cardinality(Range(BlockColumn(Cleaned))) = 2


\* Two Background rows of the raw file are in one block.
TwoBackgroundsInABlock ==
    \E i, j \in 1..Len(block_ids) :
        i < j /\ block_ids[i] = block_ids[j] /\ RawCodes[i] = 1 /\ RawCodes[j] = 1

\* The raw file has a Label column and every Type code is one of 1..4.
WellFormedRaw ==
    HasColumn(raw_file, "Label") /\ \A i \in 1..Len(RawCodes) : RawCodes[i] \in 1..4

\* C16: for a raw input with a Label column and Type codes in 1..4,
\* prepare_data returns a cleaned table (the write of the file not failing),
\* also when a block holds more than one Background row.
C16_MultipleBackgroundReturns ==
    (Prepared /\ cleaned_data_path # "unwritable" /\ WellFormedRaw) =>
        cleaned_ret.status = "ok"

\* C16, of the inputs whose blocks hold one Background row at most:
\* prepare_data returns.
C16_SingleBackgroundReturns ==
    (Prepared /\ cleaned_data_path # "unwritable" /\ WellFormedRaw
     /\ ~TwoBackgroundsInABlock) =>
        cleaned_ret.status = "ok"

\* C16, what the code does with two Background rows in a block:
\* df["Block_ID"].map(bg_mean) raises.
C16_MultipleBackgroundRaises ==
    (Prepared /\ WellFormedRaw /\ TwoBackgroundsInABlock) =>
        cleaned_ret.status = "error" /\ cleaned_ret.error = "InvalidIndexError"


IsPrefix(s, t) == Len(s) <= Len(t) /\ SubSeq(t, 1, Len(s)) = s

\* The loop over the selected features has begun.
InFeatureLoop == pc \in {"features", "done"} \/ (pc = "error" /\ applied # <<>>)

\* The selected names in the order of their registration.
RegistrationOrder ==
    SelectSeq(Keys(registry), LAMBDA name : Selected(name))

\* The selected names in the order of their first place in feature_names
\* (in the order of their registration when feature_names is None).
ArgumentOrder ==
    IF ~feature_names.given THEN Keys(registry)
    ELSE Unique(SelectSeq(feature_names.names, LAMBDA name : HasKey(registry, name)))

\* C17: the feature functions called so far are the first of the selected
\* ones in registration order, all of them once the loop is over, each once,
\* no unregistered name among them; so Total HET:Single ES (CID) is called
\* after Total Oct4 in Heterokaryon (CID) when both are selected.
C17_RegistrationOrder ==
    InFeatureLoop =>
        /\ IsPrefix(applied, RegistrationOrder)
        /\ pc = "done" => applied = RegistrationOrder
        /\ \A i \in 1..Len(applied) :
              (applied[i] = TOTAL_HET /\ Selected(TOTAL_OCT4)) =>
                  \E j \in 1..(i - 1) : applied[j] = TOTAL_OCT4

\* C17, with the order of feature_names in the place of the registration
\* order: each selected function is called once, unregistered names are
\* ignored, and the functions are called in the order of the first place of
\* their names in feature_names (in registration order for None).
C17_ArgumentOrder ==
    InFeatureLoop =>
        /\ IsPrefix(applied, ArgumentOrder)
        /\ pc = "done" => applied = ArgumentOrder
        /\ \A i, j \in 1..Len(applied) : applied[i] = applied[j] => i = j
        /\ \A i \in 1..Len(applied) : HasKey(registry, applied[i])

\* C17, what the code does with a list out of registration order: the loop
\* is over and the functions were called in another order than registered.
C17_OutOfRegistrationOrder ==
    /\ pc = "done"
    /\ applied # RegistrationOrder
    /\ applied = <<MEAN_RATIO, TOTAL_AREA>>


\* C18: at every step of the loop of _add_block_id and in the table
\* returned, the Block_IDs assigned start at 1, never decrease along the
\* rows and grow by 1 at most from a row to the next, so they are exactly
\* 1..n and every block is a run of adjacent rows; the first row of every
\* block after the first is a Type-1 row that follows a Type-4 row.
C18_BlockIdShape ==
    /\ block_ids # <<>> => block_ids[1] = 1
    /\ \A i \in 2..Len(block_ids) :
          /\ block_ids[i] \in {block_ids[i - 1], block_ids[i - 1] + 1}
          /\ block_ids[i] # block_ids[i - 1] =>
                RawCodes[i] = 1 /\ RawCodes[i - 1] = 4
    /\ block_ids # <<>> => Range(block_ids) = 1..block_ids[Len(block_ids)]
    /\ \A i, j, k \in 1..Len(block_ids) :
          (i < j /\ j < k /\ block_ids[i] = block_ids[k]) => block_ids[j] = block_ids[i]
    /\ block_ids # <<>> => block_id = block_ids[Len(block_ids)]
    /\ cleaned_ret.status = "ok" =>
          BlockColumn(Cleaned) = [i \in 1..Len(block_ids) |-> Int2Cell(block_ids[i])]

\* C18's case: the loop is over a table of two blocks of two rows each, the
\* second begun by a Type-1 row after a Type-4 row, and the table was
\* returned.
C18_Witness ==
    /\ cleaned_ret.status = "ok"
    /\ Len(block_ids) = 4
    /\ block_ids = <<1, 1, 2, 2>>
    /\ RawCodes[2] = 4 /\ RawCodes[3] = 1


\* The feature function the step calls: the head of features_to_calc.
CalledFeature == Head(features_to_calc).name

\* The columns of a table other than the named one, in order.
OtherColumns(t, name) == SelectSeq(t.columns, LAMBDA c : c # name)

\* C19: a call of a built-in feature function on (feature_df, main_df)
\* leaves the number and the order of the feature rows, the Block_ID column
\* and every column but the function's own as they were, appends its own
\* column if the table has none of the name, and leaves main_df and the
\* registry as they were; no step of create_feature_dataframe changes the
\* registry.
C19_FeatureFrame ==
    [][ /\ (pc = "features" /\ applied' # applied) =>
            /\ Len(feature_df'.rows) = Len(feature_df.rows)
            /\ BlockColumn(feature_df') = BlockColumn(feature_df)
            /\ OtherColumns(feature_df', CalledFeature) =
                  OtherColumns(feature_df, CalledFeature)
            /\ \A i \in 1..Len(feature_df.rows) :
                  \A c \in (DOMAIN feature_df.rows[i]) \ {CalledFeature} :
                      feature_df'.rows[i][c] = feature_df.rows[i][c]
            /\ feature_df'.columns \in
                  {feature_df.columns, Append(feature_df.columns, CalledFeature)}
            /\ main_df' = main_df
            /\ registry' = registry
        /\ pc \in {"cleaned", "features"} => registry' = registry ]_vars

\* C19's case: two feature functions were called on a feature table of two
\* rows, whose blocks differ, and the column of each is in the table.
C19_Witness ==
    /\ pc = "features"
    /\ Len(applied) >= 2
    /\ Len(feature_df.rows) = 2
    /\ feature_df.rows[1]["Block_ID"] # feature_df.rows[2]["Block_ID"]
    /\ \A i \in 1..Len(applied) : HasColumn(feature_df, applied[i])
    /\ registry = BuiltinRegistry

====
